---- MODULE Spec2Model ----
(***************************************************************************)
(* Model of server.c: a single-threaded poll() server with one POSIX       *)
(* timer per connection slot.  Two signal handlers (SIGINT, SIGUSR1) set   *)
(* the flags interrupt_triggered and timeout_triggered; event_loop reads   *)
(* them at the top of each iteration.  The program counter pc names the    *)
(* source position of the main thread, so that a signal can be delivered   *)
(* between any two statements of event_loop.                               *)
(*                                                                         *)
(* A system call may fail wherever the code branches on the failure:       *)
(* accept, timer_settime in arm_timer, timer_gettime, poll, recv and       *)
(* timer_delete.  Time is counted in ticks; the sizes of the table and of  *)
(* the timeout are scaled down.                                            *)
(***************************************************************************)
EXTENDS Integers, FiniteSets

\* Number of slots, listener included (server.c:19 has 10).
MAX_CONNECTIONS == 3

\* Idle timeout in clock ticks (server.c:30 has 30 seconds).
TIMEOUT == 2

Slots == 0 .. (MAX_CONNECTIONS - 1)
Clients == 1 .. (MAX_CONNECTIONS - 1)

\* Descriptor that socket() returns in initialise_listening_socket: the
\* lowest descriptor above stdin, stdout and stderr.
ListenerFd == 3

\* Descriptors the process can hold: listener, one per client slot, and the
\* one accept() returns when the table is full.
Fds == ListenerFd .. (ListenerFd + MAX_CONNECTIONS)

\* revents as the event loop reads it: 0, a value with POLLIN, or a
\* non-zero value without POLLIN (POLLERR, POLLHUP, POLLNVAL).
Revents == {"none", "in", "err"}

VARIABLES
    pfds,                \* struct pollfd pfds[]: [fd, revents] per slot
    timers,              \* remaining ticks of each timer; 0 = it_value zero
    created,             \* timers that exist (timer_create .. timer_delete)
    open,                \* descriptors open in the process
    timeout_triggered,   \* flag set by timeout_handler
    interrupt_triggered, \* flag set by interrupt_handler
    pc,                  \* position of the main thread
    i,                   \* loop index of the scan in progress
    active,              \* event_loop's local "active"
    exit_status,         \* value returned by main / passed to exit()
    expired,             \* history: timer i reached zero by expiring
    elapsed,             \* history: ticks timer i has run since it was armed
    evict,               \* history: last client slot evicted, and why
    timedout,            \* history: slots the timeout scan closed this pass
    serviced,            \* history: slots the readiness scan has serviced
    fresh,               \* history: slot accepted into during this scan, or 0
    last                 \* history: the most recent step

vars == <<pfds, timers, created, open, timeout_triggered, interrupt_triggered,
          pc, i, active, exit_status, expired, elapsed, evict, timedout,
          serviced, fresh, last>>

NoEvict == [slot |-> 0, why |-> "none"]

Op(k, s) == [kind |-> k, slot |-> s]

----------------------------------------------------------------------------
\* Timer set

\* Variant: a pending deadline is not replaced.
arm_timer_if_idle(ts, t) == IF ts[t] = 0 THEN [ts EXCEPT ![t] = TIMEOUT] ELSE ts

\* timer_settime with it_value = TIMEOUT
arm_timer(ts, t) == [ts EXCEPT ![t] = TIMEOUT]

\* Variant: the deadline is left pending.
disarm_timer_skipped(ts, t) == ts

\* timer_settime with it_value = 0.  On a timer that exists, with a zeroed
\* itimerspec, the call has no failure mode, and close_connection ignores
\* its result.
disarm_timer(ts, t) == [ts EXCEPT ![t] = 0]

\* Variant: the comparison with zero never succeeds.
timer_expired_never(ts, t) == FALSE

\* Variant: a timer about to run out counts as expired.
timer_expired_lax(ts, t) == ts[t] <= 1

\* timer_gettime reports it_value = 0: the timer is disarmed or has fired
timer_expired(ts, t) == ts[t] = 0

----------------------------------------------------------------------------
\* Connection table

\* pfd->fd < 0 marks an unused slot
IsFree(p, s) == p[s].fd < 0

\* Variant: a full table yields its last slot.
FreeSlots_or_last(p) ==
    IF \A s \in Clients : p[s].fd >= 0 THEN {MAX_CONNECTIONS - 1}
    ELSE {s \in Clients : p[s].fd < 0}

FreeSlots(p) == {s \in Clients : IsFree(p, s)}

\* Variant: the scan runs downwards.
FirstFree_highest(p) == CHOOSE s \in FreeSlots(p) : \A r \in FreeSlots(p) : s >= r

\* The slot the "find spare slot" loop of accept_connection stops at.
FirstFree(p) == CHOOSE s \in FreeSlots(p) : \A r \in FreeSlots(p) : s <= r

\* Descriptor returned by accept(): the lowest one not open.
NewFd(o) == CHOOSE f \in Fds \ o : \A g \in Fds \ o : f <= g

\* Variant: the new slot is marked readable when it is filled.
Occupy_ready(p, s, f) == [p EXCEPT ![s].fd = f, ![s].revents = "in"]

\* pfd->fd = s; pfd->events = POLLIN (revents is left as it was)
Occupy(p, s, f) == [p EXCEPT ![s].fd = f]

\* Variant: the table itself is passed instead of the slot's entry.
MarkFree_base(p, s) == [p EXCEPT ![0].fd = -1]

\* Variant: the descriptor is closed but stays in the table.
MarkFree_forgotten(p, s) == p

\* close_connection: pfd->fd = -1
MarkFree(p, s) == [p EXCEPT ![s].fd = -1]

\* History kept with a timer: arming or disarming it forgets an expiry.
Rearmed(ex, t) == [ex EXCEPT ![t] = FALSE]

\* History kept with a timer: arming or disarming it restarts the count of
\* the ticks it has run.
Restarted(el, t) == [el EXCEPT ![t] = 0]

\* Variant: the slot is marked free without closing its descriptor.
CloseFd_skipped(o, p, s) == o

\* close_connection: close(pfd->fd)
CloseFd(o, p, s) == o \ {p[s].fd}

----------------------------------------------------------------------------
Init ==
    /\ pfds = [s \in Slots |->
                 [fd |-> IF s = 0 THEN ListenerFd ELSE -1, revents |-> "none"]]
    /\ timers = [s \in Slots |-> 0]
    /\ created = Slots
    /\ open = {ListenerFd}
    /\ timeout_triggered = 0
    /\ interrupt_triggered = 0
    /\ pc = "loop"
    /\ i = 0
    /\ active = 0
    /\ exit_status = "running"
    /\ expired = [s \in Slots |-> FALSE]
    /\ elapsed = [s \in Slots |-> 0]
    /\ evict = NoEvict
    /\ timedout = {}
    /\ serviced = {}
    /\ fresh = 0
    /\ last = Op("init", 0)

----------------------------------------------------------------------------
\* Asynchronous events.  Neither handler is masked anywhere, so both can run
\* between any two steps of the main thread.  A handler that runs while the
\* thread is blocked in poll() makes poll() fail with EINTR, and the loop
\* continues from its top (server.c:357-358).

\* Variant: EINTR from poll() is treated like any other poll() failure.
Interrupted_fatal(p) == IF p = "in_poll" THEN "shutdown" ELSE p

Interrupted(p) == IF p = "in_poll" THEN "loop" ELSE p

\* SIGINT is delivered: interrupt_handler runs.
interrupt_handler ==
    /\ pc # "exited"
    /\ interrupt_triggered' = 1
    /\ pc' = Interrupted(pc)
    /\ last' = Op("sigint", 0)
    /\ UNCHANGED <<pfds, timers, created, open, timeout_triggered, i, active,
                   exit_status, expired, elapsed, evict, timedout, serviced,
                   fresh>>

Armed(ts, cr) == {t \in cr : ts[t] > 0}

Firing(ts, cr) == {t \in cr : ts[t] = 1}

\* One unit of time passes: every armed timer counts down; a timer that
\* reaches zero raises TIMEOUT_SIGNAL and timeout_handler runs.
Tick ==
    /\ pc # "exited"
    /\ Armed(timers, created) # {}
    /\ timers' = [t \in Slots |->
                    IF t \in Armed(timers, created) THEN timers[t] - 1
                    ELSE timers[t]]
    /\ expired' = [t \in Slots |->
                     IF t \in Firing(timers, created) THEN TRUE ELSE expired[t]]
    /\ elapsed' = [t \in Slots |->
                     IF t \in Armed(timers, created) THEN elapsed[t] + 1
                     ELSE elapsed[t]]
    /\ IF Firing(timers, created) # {}
       THEN /\ timeout_triggered' = 1
            /\ pc' = Interrupted(pc)
       ELSE UNCHANGED <<timeout_triggered, pc>>
    /\ last' = Op("tick", 0)
    /\ UNCHANGED <<pfds, created, open, interrupt_triggered, i, active,
                   exit_status, evict, timedout, serviced, fresh>>

----------------------------------------------------------------------------
\* close_connection(&pfds[s], timers[s]).  why is recorded in evict for the
\* two eviction causes.
close_connection(s, why) ==
    /\ timers' = disarm_timer(timers, s)
    /\ expired' = Rearmed(expired, s)
    /\ elapsed' = Restarted(elapsed, s)
    /\ open' = CloseFd(open, pfds, s)
    /\ pfds' = MarkFree(pfds, s)
    /\ evict' = IF why \in {"timeout", "eof"} THEN [slot |-> s, why |-> why]
                ELSE evict
    /\ timedout' = IF why = "timeout" THEN timedout \cup {s} ELSE timedout

----------------------------------------------------------------------------
\* event_loop, top of the while loop

\* if (interrupt_triggered) return 0;  main then stores EXIT_SUCCESS
LoopInterrupted ==
    /\ pc = "loop"
    /\ interrupt_triggered = 1
    /\ pc' = "shutdown"
    /\ exit_status' = "EXIT_SUCCESS"
    /\ last' = Op("loop_exit", 0)
    /\ UNCHANGED <<pfds, timers, created, open, timeout_triggered,
                   interrupt_triggered, i, active, expired, elapsed, evict,
                   timedout, serviced, fresh>>

LoopContinue ==
    /\ pc = "loop"
    /\ interrupt_triggered = 0
    /\ pc' = "check_timeout"
    /\ timedout' = {}
    /\ last' = Op("loop_next", 0)
    /\ UNCHANGED <<pfds, timers, created, open, timeout_triggered,
                   interrupt_triggered, i, active, exit_status, expired,
                   elapsed, evict, serviced, fresh>>

\* if (timeout_triggered) { timeout_triggered = 0; for (i = 1; ...
TimeoutFlagSet ==
    /\ pc = "check_timeout"
    /\ timeout_triggered = 1
    /\ timeout_triggered' = 0
    /\ i' = 1
    /\ pc' = "tscan"
    /\ last' = Op("flag_clear", 0)
    /\ UNCHANGED <<pfds, timers, created, open, interrupt_triggered, active,
                   exit_status, expired, elapsed, evict, timedout, serviced,
                   fresh>>

TimeoutFlagClear ==
    /\ pc = "check_timeout"
    /\ timeout_triggered = 0
    /\ pc' = "pre_poll"
    /\ last' = Op("flag_unset", 0)
    /\ UNCHANGED <<pfds, timers, created, open, timeout_triggered,
                   interrupt_triggered, i, active, exit_status, expired,
                   elapsed, evict, timedout, serviced, fresh>>

\* Variant: the flag is reset once more when the scan is over.
FlagAfterScan_reset(f) == 0

\* The flag is reset before the scan (server.c:333) and not after it.
FlagAfterScan(f) == f

\* Timeout scan, one slot per step.
TimeoutScanFree ==
    /\ pc = "tscan"
    /\ i < MAX_CONNECTIONS
    /\ IsFree(pfds, i)
    /\ i' = i + 1
    /\ last' = Op("tscan_free", i)
    /\ UNCHANGED <<pfds, timers, created, open, timeout_triggered,
                   interrupt_triggered, pc, active, exit_status, expired,
                   elapsed, evict, timedout, serviced, fresh>>

TimeoutScanKeep ==
    /\ pc = "tscan"
    /\ i < MAX_CONNECTIONS
    /\ ~IsFree(pfds, i)
    /\ ~timer_expired(timers, i)
    /\ i' = i + 1
    /\ last' = Op("tscan_keep", i)
    /\ UNCHANGED <<pfds, timers, created, open, timeout_triggered,
                   interrupt_triggered, pc, active, exit_status, expired,
                   elapsed, evict, timedout, serviced, fresh>>

TimeoutScanClose ==
    /\ pc = "tscan"
    /\ i < MAX_CONNECTIONS
    /\ ~IsFree(pfds, i)
    /\ timer_expired(timers, i)
    /\ close_connection(i, "timeout")
    /\ i' = i + 1
    /\ last' = Op("tscan_close", i)
    /\ UNCHANGED <<created, timeout_triggered, interrupt_triggered, pc, active,
                   exit_status, serviced, fresh>>

\* timer_gettime fails inside timer_expired: exit(EXIT_FAILURE)
TimeoutScanFatal ==
    /\ pc = "tscan"
    /\ i < MAX_CONNECTIONS
    /\ ~IsFree(pfds, i)
    /\ pc' = "exited"
    /\ exit_status' = "EXIT_FAILURE"
    /\ last' = Op("tscan_fatal", i)
    /\ UNCHANGED <<pfds, timers, created, open, timeout_triggered,
                   interrupt_triggered, i, active, expired, elapsed, evict,
                   timedout, serviced, fresh>>

TimeoutScanDone ==
    /\ pc = "tscan"
    /\ i >= MAX_CONNECTIONS
    /\ i' = 0
    /\ timeout_triggered' = FlagAfterScan(timeout_triggered)
    /\ pc' = "pre_poll"
    /\ last' = Op("tscan_done", 0)
    /\ UNCHANGED <<pfds, timers, created, open, interrupt_triggered, active,
                   exit_status, expired, elapsed, evict, timedout, serviced,
                   fresh>>

----------------------------------------------------------------------------
\* poll(pfds, n, -1)

\* The thread enters the system call and blocks.
PollEnter ==
    /\ pc = "pre_poll"
    /\ pc' = "in_poll"
    /\ last' = Op("poll_enter", 0)
    /\ UNCHANGED <<pfds, timers, created, open, timeout_triggered,
                   interrupt_triggered, i, active, exit_status, expired,
                   elapsed, evict, timedout, serviced, fresh>>

\* What poll() may write to revents: 0 for an entry with a negative fd,
\* and a non-zero value in at least one entry.
PollResults(p) ==
    {rv \in [Slots -> Revents] :
        /\ \A s \in Slots : IsFree(p, s) => rv[s] = "none"
        /\ \E s \in Slots : rv[s] # "none"}

Ready(rv) == {s \in Slots : rv[s] # "none"}

\* Variant: the scan begins at the first client slot.
FirstScanned_client == CHOOSE s \in Clients : \A r \in Clients : s <= r

\* for (size_t i = 0U; ...: the readiness scan begins at the lowest slot.
FirstScanned == CHOOSE s \in Slots : \A r \in Slots : s <= r

\* poll() returns the number of entries with events.
PollReturn ==
    /\ pc = "in_poll"
    /\ \E rv \in PollResults(pfds) :
          /\ pfds' = [s \in Slots |-> [fd |-> pfds[s].fd, revents |-> rv[s]]]
          /\ active' = Cardinality(Ready(rv))
    /\ i' = FirstScanned
    /\ pc' = "rscan"
    /\ serviced' = {}
    /\ fresh' = 0
    /\ last' = Op("poll_ready", 0)
    /\ UNCHANGED <<timers, created, open, timeout_triggered,
                   interrupt_triggered, exit_status, expired, elapsed, evict,
                   timedout>>

\* poll() fails with an error other than EINTR: event_loop returns 0.
PollFail ==
    /\ pc = "in_poll"
    /\ pc' = "shutdown"
    /\ exit_status' = "EXIT_SUCCESS"
    /\ last' = Op("poll_fail", 0)
    /\ UNCHANGED <<pfds, timers, created, open, timeout_triggered,
                   interrupt_triggered, i, active, expired, elapsed, evict,
                   timedout, serviced, fresh>>

----------------------------------------------------------------------------
\* Readiness scan, one slot per step.

\* Variant: the scan does not look at the shutdown flag.
ScanCond_unbroken == i < MAX_CONNECTIONS /\ active > 0

\* i < MAX_CONNECTIONS && active > 0 && !interrupt_triggered
ScanCond == i < MAX_CONNECTIONS /\ active > 0 /\ interrupt_triggered = 0

ReadyDone ==
    /\ pc = "rscan"
    /\ ~ScanCond
    /\ pc' = "loop"
    /\ i' = 0
    /\ active' = 0
    /\ serviced' = {}
    /\ fresh' = 0
    /\ last' = Op("rscan_done", active)
    /\ UNCHANGED <<pfds, timers, created, open, timeout_triggered,
                   interrupt_triggered, exit_status, expired, elapsed, evict,
                   timedout>>

\* if (pfd->fd < 0 || !pfd->revents) continue;
ReadySkip ==
    /\ pc = "rscan"
    /\ ScanCond
    /\ IsFree(pfds, i) \/ pfds[i].revents = "none"
    /\ i' = i + 1
    /\ last' = Op("rscan_skip", i)
    /\ UNCHANGED <<pfds, timers, created, open, timeout_triggered,
                   interrupt_triggered, pc, active, exit_status, expired,
                   elapsed, evict, timedout, serviced, fresh>>

Serviced(s) == ~IsFree(pfds, s) /\ pfds[s].revents # "none"

\* if (!(pfd->revents & POLLIN)) { close_connection(pfd, timer); continue; }
ReadyError ==
    /\ pc = "rscan"
    /\ ScanCond
    /\ Serviced(i)
    /\ pfds[i].revents = "err"
    /\ active' = active - 1
    /\ serviced' = serviced \cup {i}
    /\ close_connection(i, "err")
    /\ i' = i + 1
    /\ last' = Op("rscan_err", i)
    /\ UNCHANGED <<created, timeout_triggered, interrupt_triggered, pc,
                   exit_status, fresh>>

\* accept_connection(pfds, timers); its return value is not used.
accept_connection ==
    \/ \* accept() fails
       /\ last' = Op("accept_fail", 0)
       /\ UNCHANGED <<pfds, timers, open, expired, elapsed, evict, timedout,
                      fresh>>
    \/ \* a free slot is found and its timer armed
       /\ FreeSlots(pfds) # {}
       /\ LET s == FirstFree(pfds) IN
             /\ pfds' = Occupy(pfds, s, NewFd(open))
             /\ open' = open \cup {NewFd(open)}
             /\ timers' = arm_timer(timers, s)
             /\ expired' = Rearmed(expired, s)
             /\ elapsed' = Restarted(elapsed, s)
             /\ evict' = IF evict.slot = s THEN NoEvict ELSE evict
             /\ last' = [kind |-> "accept_ok", slot |-> s,
                         after |-> IF evict.slot = s THEN evict.why ELSE "none"]
             /\ fresh' = s
       /\ UNCHANGED timedout
    \/ \* a free slot is found, arm_timer fails: close_connection
       /\ FreeSlots(pfds) # {}
       /\ LET s == FirstFree(pfds) IN
             /\ timers' = disarm_timer(timers, s)
             /\ expired' = Rearmed(expired, s)
             /\ elapsed' = Restarted(elapsed, s)
             /\ last' = Op("accept_armfail", s)
       /\ UNCHANGED <<pfds, open, evict, timedout, fresh>>
    \/ \* no free slot: close(s)
       /\ FreeSlots(pfds) = {}
       /\ last' = Op("accept_full", NewFd(open))
       /\ UNCHANGED <<pfds, timers, open, expired, elapsed, evict, timedout,
                      fresh>>

ReadyAccept ==
    /\ pc = "rscan"
    /\ ScanCond
    /\ Serviced(i)
    /\ pfds[i].revents = "in"
    /\ i = 0
    /\ active' = active - 1
    /\ serviced' = serviced \cup {i}
    /\ accept_connection
    /\ i' = i + 1
    /\ UNCHANGED <<created, timeout_triggered, interrupt_triggered, pc,
                   exit_status>>

ClientReadable ==
    /\ pc = "rscan"
    /\ ScanCond
    /\ Serviced(i)
    /\ pfds[i].revents = "in"
    /\ i # 0

\* if (arm_timer(timer)) { close_connection(pfd, timer); continue; }
ReadyArmFail ==
    /\ ClientReadable
    /\ active' = active - 1
    /\ serviced' = serviced \cup {i}
    /\ close_connection(i, "armfail")
    /\ i' = i + 1
    /\ last' = Op("recv_armfail", i)
    /\ UNCHANGED <<created, timeout_triggered, interrupt_triggered, pc,
                   exit_status, fresh>>

\* arm_timer succeeds; recv returns data, which is printed.
ReadyData ==
    /\ ClientReadable
    /\ active' = active - 1
    /\ serviced' = serviced \cup {i}
    /\ timers' = arm_timer(timers, i)
    /\ expired' = Rearmed(expired, i)
    /\ elapsed' = Restarted(elapsed, i)
    /\ i' = i + 1
    /\ last' = [kind |-> "recv_data", slot |-> i, left |-> timers[i]]
    /\ UNCHANGED <<pfds, created, open, timeout_triggered, interrupt_triggered,
                   pc, exit_status, evict, timedout, fresh>>

\* arm_timer succeeds; recv returns 0: close_connection.
ReadyEof ==
    /\ ClientReadable
    /\ active' = active - 1
    /\ serviced' = serviced \cup {i}
    /\ timers' = disarm_timer(arm_timer(timers, i), i)
    /\ expired' = Rearmed(expired, i)
    /\ elapsed' = Restarted(elapsed, i)
    /\ open' = CloseFd(open, pfds, i)
    /\ pfds' = MarkFree(pfds, i)
    /\ evict' = [slot |-> i, why |-> "eof"]
    /\ i' = i + 1
    /\ last' = Op("recv_eof", i)
    /\ UNCHANGED <<created, timeout_triggered, interrupt_triggered, pc,
                   exit_status, timedout, fresh>>

\* arm_timer succeeds; recv fails with EINTR: continue.
ReadyEintr ==
    /\ ClientReadable
    /\ active' = active - 1
    /\ serviced' = serviced \cup {i}
    /\ timers' = arm_timer(timers, i)
    /\ expired' = Rearmed(expired, i)
    /\ elapsed' = Restarted(elapsed, i)
    /\ i' = i + 1
    /\ last' = Op("recv_eintr", i)
    /\ UNCHANGED <<pfds, created, open, timeout_triggered, interrupt_triggered,
                   pc, exit_status, evict, timedout, fresh>>

\* arm_timer succeeds; recv fails otherwise: return 1, main stores
\* EXIT_FAILURE.
ReadyFail ==
    /\ ClientReadable
    /\ active' = active - 1
    /\ serviced' = serviced \cup {i}
    /\ timers' = arm_timer(timers, i)
    /\ expired' = Rearmed(expired, i)
    /\ elapsed' = Restarted(elapsed, i)
    /\ pc' = "shutdown"
    /\ exit_status' = "EXIT_FAILURE"
    /\ last' = Op("recv_fail", i)
    /\ UNCHANGED <<pfds, created, open, timeout_triggered, interrupt_triggered,
                   i, evict, timedout, fresh>>

----------------------------------------------------------------------------
\* main: shutdown_server(pfds, timers, MAX_CONNECTIONS); return exit_status;

\* destroy_timers returns at the first timer_delete that fails; k is the
\* index of that timer, or n when none fails.
destroy_timers(cr, n, k) == {t \in cr : t >= k}

\* close_connection on every slot, then destroy_timers.
shutdown_server ==
    /\ pc = "shutdown"
    /\ \E k \in 0 .. MAX_CONNECTIONS :
          /\ created' = destroy_timers(created, MAX_CONNECTIONS, k)
          /\ last' = Op("shutdown", k)
    /\ timers' = [t \in Slots |-> 0]
    /\ expired' = [t \in Slots |-> FALSE]
    /\ elapsed' = [t \in Slots |-> 0]
    /\ pfds' = [s \in Slots |-> [fd |-> -1, revents |-> pfds[s].revents]]
    /\ open' = open \ {pfds[s].fd : s \in Slots}
    /\ pc' = "exited"
    /\ UNCHANGED <<timeout_triggered, interrupt_triggered, i, active,
                   exit_status, evict, timedout, serviced, fresh>>

----------------------------------------------------------------------------
\* Steps of the main thread.
ServerStep ==
    \/ LoopInterrupted
    \/ LoopContinue
    \/ TimeoutFlagSet
    \/ TimeoutFlagClear
    \/ TimeoutScanFree
    \/ TimeoutScanKeep
    \/ TimeoutScanClose
    \/ TimeoutScanFatal
    \/ TimeoutScanDone
    \/ PollEnter
    \/ ReadyDone
    \/ ReadySkip
    \/ ReadyError
    \/ ReadyAccept
    \/ ReadyArmFail
    \/ ReadyData
    \/ ReadyEof
    \/ ReadyEintr
    \/ ReadyFail
    \/ shutdown_server

\* What the environment decides: signals, time, and what poll() reports.
EnvStep ==
    \/ interrupt_handler
    \/ Tick
    \/ PollReturn
    \/ PollFail

Next == ServerStep \/ EnvStep

Spec == Init /\ [][Next]_vars

\* The process keeps running and time keeps passing; nothing obliges a peer
\* to send, a user to press Ctrl-C, or poll() to fail.
FairSpec == Spec /\ WF_vars(ServerStep) /\ WF_vars(Tick)

TypeOK ==
    /\ \A s \in Slots : pfds[s].fd \in Fds \cup {-1} /\ pfds[s].revents \in Revents
    /\ timers \in [Slots -> 0 .. TIMEOUT]
    /\ elapsed \in [Slots -> 0 .. TIMEOUT]
    /\ created \subseteq Slots
    /\ open \subseteq Fds
    /\ timeout_triggered \in {0, 1}
    /\ interrupt_triggered \in {0, 1}
    /\ i \in 0 .. MAX_CONNECTIONS
    /\ timedout \subseteq Clients
    /\ serviced \subseteq Slots
    /\ fresh \in Slots
    /\ active \in 0 .. MAX_CONNECTIONS

----------------------------------------------------------------------------
\* Properties.  They are written over the state itself, not over the helper
\* operators of the model.

Occupied(s) == pfds[s].fd >= 0

Running == pc \notin {"shutdown", "exited"}

\* An occupied client slot whose timer has run out and has been neither
\* rearmed nor disarmed since.
TimedOut(s) == Occupied(s) /\ timers[s] = 0 /\ expired[s]

\* C1: whenever the timer of an occupied client slot expires, the server
\* eventually closes the slot (or the slot is rearmed by new data, or the
\* process ends), even if poll() never reports readiness again, wherever in
\* the loop the thread is when the signal arrives.
C1_EvictionIsLive ==
    \A s \in Clients : TimedOut(s) ~> (~TimedOut(s) \/ pc = "exited")

\* C4: once interrupt_handler has set the shutdown flag, at whatever point of
\* the loop, the event loop eventually exits.
C4_ShutdownIsLive == (interrupt_triggered = 1) ~> ~Running

AllOccupied == \A s \in Clients : Occupied(s)

\* The step is the readiness scan servicing a readable listener, that is,
\* a call of accept_connection.
AcceptStep ==
    /\ pc = "rscan" /\ i = 0 /\ i' = 1
    /\ Occupied(0) /\ pfds[0].revents = "in"

\* C2: accept_connection on a full table closes the accepted descriptor at
\* once, is not fatal, and changes no slot's descriptor and no timer; and the
\* process never holds more than MAX_CONNECTIONS - 1 client descriptors.
C2_CapacityRejection ==
    /\ [][(AcceptStep /\ AllOccupied) =>
            /\ \A s \in Slots : pfds'[s].fd = pfds[s].fd
            /\ timers' = timers
            /\ open' = open
            /\ last'.kind \in {"accept_full", "accept_fail"}
            /\ last'.kind = "accept_full" => last'.slot \notin open'
            /\ pc' = "rscan"
            /\ exit_status' = exit_status]_vars
    /\ [](Cardinality(open \ {ListenerFd}) <= MAX_CONNECTIONS - 1)

C2_Witness ==
    /\ last.kind = "accept_full"
    /\ AllOccupied
    /\ pc = "rscan"

\* C3: a read that returns data leaves the slot occupied with its timer set
\* to a full TIMEOUT, whatever was left of the previous deadline; and the
\* timeout scan closes a slot only when its timer has run out since it was
\* last armed.  A connection that is read before each deadline is therefore
\* never closed by the timeout scan.
C3_KeepAlive ==
    [][\A s \in Clients :
         /\ (last'.kind = "recv_data" /\ last'.slot = s) =>
               /\ Occupied(s)
               /\ pfds'[s].fd = pfds[s].fd
               /\ timers'[s] = TIMEOUT
               /\ ~expired'[s]
         /\ (pc = "tscan" /\ Occupied(s) /\ pfds'[s].fd < 0) => TimedOut(s)]_vars

\* A read rearmed a timer that had partly run down.
C3_Witness ==
    /\ last.kind = "recv_data"
    /\ last.left > 0
    /\ last.left < TIMEOUT
    /\ timers[last.slot] = TIMEOUT
    /\ Occupied(last.slot)

\* Some free client slot becomes occupied in this step.
Placed(s) == ~Occupied(s) /\ pfds'[s].fd >= 0

\* C5: a slot closed after a zero-byte read or by the timeout scan is free,
\* its descriptor closed, and stays free until accept_connection occupies
\* it; an accept that succeeds while every lower slot is occupied puts the new
\* connection in that same slot.
C5_SlotReuse ==
    /\ [](evict.why # "none" => ~Occupied(evict.slot))
    /\ [][\A s \in Clients :
            (last'.kind \in {"tscan_close", "recv_eof"} /\ last'.slot = s) =>
               /\ Occupied(s)
               /\ pfds'[s].fd = -1
               /\ pfds[s].fd \notin open'
               /\ evict' = [slot |-> s,
                            why |-> IF pc = "tscan" THEN "timeout" ELSE "eof"]]_vars
    /\ [][(/\ evict.why # "none"
           /\ \A r \in Clients : r < evict.slot => Occupied(r)
           /\ \E r \in Clients : Placed(r)) =>
              /\ Placed(evict.slot)
              /\ pfds'[evict.slot].fd \in open' \ open]_vars

\* A connection was accepted into a slot freed by a zero-byte read.
C5_Witness ==
    /\ last.kind = "accept_ok"
    /\ last.after = "eof"
    /\ Occupied(last.slot)

C7_ExitStatus ==
    [][/\ last'.kind = "loop_exit" => exit_status' = "EXIT_SUCCESS"
       /\ last'.kind = "poll_fail" => exit_status' = "EXIT_FAILURE"
       /\ last'.kind = "recv_fail" => exit_status' = "EXIT_FAILURE"
       /\ pc = "shutdown" => exit_status' = exit_status]_vars

\* C8: the process exits only after every connection has been closed and
\* every timer released.
C8_FullShutdown ==
    pc = "exited" =>
       /\ \A s \in Slots : ~Occupied(s)
       /\ open = {}
       /\ created = {}

\* C9: a connection that accept_connection places goes to the lowest-indexed
\* free client slot, with a descriptor that was not open before, and that
\* slot's timer is armed with TIMEOUT; no other slot or timer changes.
C9_LowestFreeSlot ==
    [][\A s \in Clients : Placed(s) =>
         /\ AcceptStep
         /\ \A r \in Clients : r < s => Occupied(r)
         /\ pfds'[s].fd \in open' \ open
         /\ timers'[s] = TIMEOUT
         /\ \A r \in Slots \ {s} :
               pfds'[r].fd = pfds[r].fd /\ timers'[r] = timers[r]]_vars

\* Slot 1 was evicted by the timeout scan and is taken again while slot 2
\* is occupied.
C9_Witness ==
    /\ last.kind = "accept_ok"
    /\ last.slot = 1
    /\ last.after = "timeout"
    /\ timers[1] = TIMEOUT
    /\ \E r \in Clients : r > 1 /\ Occupied(r)

\* The step is the readiness scan rearming the timer of client slot s and
\* calling recv on it.
ReadStep(s) ==
    /\ last'.slot = s
    /\ last'.kind \in {"recv_data", "recv_eof", "recv_eintr", "recv_fail"}

\* C10 as stated: the readiness scan never reads from, or rearms, a slot
\* whose timer has already run out.
C10_NeverServicedExpired ==
    [][\A s \in Clients : ReadStep(s) => ~TimedOut(s)]_vars

\* C10, amended: a slot that the timeout scan examines while its timer has
\* run out is closed by that step (unless the timer query fails and the
\* process exits), and a slot closed by the timeout scan is not read from in
\* the rest of that loop iteration.
C10_ScanClosesBeforeService ==
    [][\A s \in Clients :
         /\ (pc = "tscan" /\ i = s /\ i' = s + 1 /\ TimedOut(s)) =>
               (pfds'[s].fd = -1 /\ s \in timedout')
         /\ ReadStep(s) => s \notin timedout]_vars

\* The timeout scan closed one slot, and the readiness scan of the same
\* iteration then read from another.
C10_Witness ==
    /\ pc = "rscan"
    /\ timedout # {}
    /\ last.kind = "recv_data"
    /\ last.slot \notin timedout

----------------------------------------------------------------------------
\* C11: the flag is reset before the scan and by nothing else, so an expiry
\* is never lost from it: while the process runs, an occupied client slot
\* whose timer has run out either still lies ahead of a timeout scan in
\* progress or has the flag set, however many expiries were coalesced into
\* one setting of the flag and whenever during the scan they arrived.
C11_FlagNeverLosesExpiry ==
    pc # "exited" =>
       \A s \in Clients :
          TimedOut(s) => \/ timeout_triggered = 1
                         \/ pc = "tscan" /\ i <= s

\* Two timers ran out under one setting of the flag; the scan has closed
\* the first slot, and the flag, reset before the scan, is set again by an
\* expiry that arrived behind the scan.
C11_Witness ==
    /\ pc = "tscan"
    /\ timeout_triggered = 1
    /\ timedout # {}
    /\ \E s \in Clients : TimedOut(s) /\ s < i

----------------------------------------------------------------------------
\* The slot the step's failure belongs to; a failed accept() has none.
Affected == IF last'.kind = "accept_fail" THEN {} ELSE {last'.slot}

\* The step closes no descriptor and changes no table entry or timer
\* outside the affected slot.
OthersUntouched ==
    /\ \A r \in Slots \ Affected :
          pfds'[r].fd = pfds[r].fd /\ timers'[r] = timers[r]
    /\ \A f \in open \ open' : \E r \in Affected : pfds[r].fd = f

\* The readiness scan goes on with the next slot.
LoopGoesOn == pc' = "rscan" /\ i' = i + 1 /\ exit_status' = exit_status

\* C12 as stated: an accept failure, a read error other than EINTR, a
\* zero-byte read, an arm_timer failure and an error or hangup event each
\* touch at most the affected slot and leave the loop running.
C12_NeverPropagates ==
    [][last'.kind \in {"accept_fail", "accept_armfail", "recv_armfail",
                       "recv_eof", "rscan_err", "recv_fail"} =>
          (OthersUntouched /\ LoopGoesOn)]_vars

\* C12, amended: the same for every condition but the read error; a read
\* error other than EINTR also leaves the table as it is, but ends the loop
\* with return value 1, and main exits with EXIT_FAILURE after shutdown.
C12_OnlyReadErrorPropagates ==
    [][/\ last'.kind \in {"accept_fail", "accept_armfail", "recv_armfail",
                          "recv_eof", "rscan_err"} =>
             (OthersUntouched /\ LoopGoesOn)
       /\ last'.kind = "recv_fail" =>
             /\ OthersUntouched
             /\ pfds'[last'.slot].fd = pfds[last'.slot].fd
             /\ pc' = "shutdown"
             /\ exit_status' = "EXIT_FAILURE"]_vars

\* One client slot has just been closed for its own failure while another
\* is still connected with its deadline pending, and the scan goes on.
C12_Witness ==
    /\ pc = "rscan"
    /\ last.kind \in {"recv_armfail", "recv_eof", "rscan_err"}
    /\ last.slot \in Clients
    /\ ~Occupied(last.slot)
    /\ Occupied(0)
    /\ \E r \in Clients : Occupied(r) /\ timers[r] > 0

----------------------------------------------------------------------------
\* A signal handler runs while the server is blocked in poll(): SIGINT, or
\* TIMEOUT_SIGNAL from a timer that has just run out.
SignalInPoll ==
    /\ pc = "in_poll"
    /\ \/ last'.kind = "sigint"
       \/ /\ last'.kind = "tick"
          /\ \E t \in Slots : timers[t] = 1 /\ timers'[t] = 0

\* No descriptor is closed and no slot's descriptor changes.
TableKept == open' = open /\ \A r \in Slots : pfds'[r].fd = pfds[r].fd

\* C13 as stated: an interrupted poll() restarts the iteration and an
\* interrupted recv() skips the slot; neither closes a connection, changes
\* a slot's occupancy, descriptor or timer deadline, or ends the loop.
C13_RetriedWithoutSideEffects ==
    [][/\ SignalInPoll =>
             /\ pc' = "loop"
             /\ TableKept
             /\ exit_status' = exit_status
             /\ \A t \in Slots : timers'[t] <= timers[t]
       /\ last'.kind = "recv_eintr" =>
             /\ pc' = "rscan" /\ i' = i + 1
             /\ TableKept
             /\ exit_status' = exit_status
             /\ timers' = timers]_vars

\* C13, amended: as stated for poll(); the step whose recv() is
\* interrupted has already rearmed the slot's timer to the full TIMEOUT,
\* and changes nothing else.
C13_InterruptedReadKeepsRearm ==
    [][/\ SignalInPoll =>
             /\ pc' = "loop"
             /\ TableKept
             /\ exit_status' = exit_status
             /\ \A t \in Slots : timers'[t] <= timers[t]
       /\ last'.kind = "recv_eintr" =>
             /\ pc' = "rscan" /\ i' = i + 1
             /\ TableKept
             /\ exit_status' = exit_status
             /\ timers'[last'.slot] = TIMEOUT
             /\ \A t \in Slots \ {last'.slot} : timers'[t] = timers[t]]_vars

\* A read has just been interrupted: the slot is still connected, its
\* timer is freshly armed, and the scan goes on with another client
\* connected.
C13_Witness ==
    /\ pc = "rscan"
    /\ last.kind = "recv_eintr"
    /\ Occupied(last.slot)
    /\ timers[last.slot] = TIMEOUT
    /\ i = last.slot + 1
    /\ \E r \in Clients \ {last.slot} : Occupied(r)

----------------------------------------------------------------------------
\* Slots the last poll() reported an event for that the readiness scan of
\* this pass has not handled.
Unserviced ==
    {s \in Slots : Occupied(s) /\ pfds[s].revents # "none" /\ s \notin serviced}

\* Steps of the readiness scan that handle a reported slot.
ServiceKinds ==
    {"rscan_err", "accept_fail", "accept_ok", "accept_armfail", "accept_full",
     "recv_armfail", "recv_data", "recv_eof", "recv_eintr", "recv_fail"}

\* C14 as stated: the readiness scan ends, and the loop goes on to exit,
\* only when every slot the wait reported has been serviced.
C14_CompletesObservedWork ==
    [][last'.kind = "rscan_done" => Unserviced = {}]_vars

\* C14, amended: once interrupt_triggered is set the readiness scan handles
\* no further slot and ends with the reported slots it has not reached left
\* as they are; a scan that ends with the flag clear has handled every
\* reported slot.
C14_InterruptCutsScan ==
    [][/\ (pc = "rscan" /\ interrupt_triggered = 1) =>
             last'.kind \in {"rscan_done", "sigint", "tick"}
       /\ (last'.kind = "rscan_done" /\ interrupt_triggered = 1) =>
             \A s \in Unserviced :
                pfds'[s] = pfds[s] /\ timers'[s] = timers[s]
       /\ (last'.kind = "rscan_done" /\ interrupt_triggered = 0) =>
             Unserviced = {}]_vars

\* The readiness scan has just ended on the interrupt flag with reported
\* events still counted in active and a ready client still connected.
C14_Witness ==
    /\ pc = "loop"
    /\ interrupt_triggered = 1
    /\ last.kind = "rscan_done"
    /\ last.slot > 0
    /\ \E s \in Clients : Occupied(s) /\ pfds[s].revents # "none"

----------------------------------------------------------------------------
\* C15: until shutdown_server runs, slot 0 holds the listening descriptor,
\* that descriptor is open, and timer 0 is not armed.
C15_ListenerInvariant ==
    pc \notin {"shutdown", "exited"} =>
       /\ pfds[0].fd = ListenerFd
       /\ ListenerFd \in open
       /\ timers[0] = 0

----------------------------------------------------------------------------
\* C16: when shutdown_server has run destroy_timers and timer_delete failed
\* first on timer last.slot, no timer after that one still exists.
C16_DestroyReleasesTheRest ==
    (pc = "exited" /\ last.kind = "shutdown") =>
       \A t \in created : t <= last.slot

----------------------------------------------------------------------------
\* Steps in which accept_connection is called.
AcceptKinds == {"accept_fail", "accept_ok", "accept_armfail", "accept_full"}

\* C17: at every point of a readiness scan the slots serviced so far are
\* exactly the slots below the scan index that poll() reported an event
\* for, so reported slots are serviced in ascending order; accept is
\* attempted on slot 0 only and before any other slot of the pass is
\* serviced, and every read or close is on a client slot.
C17_AscendingService ==
    [][/\ pc' = "rscan" =>
             serviced' = {r \in Slots : r < i' /\ pfds'[r].revents # "none"}
       /\ last'.kind \in ServiceKinds =>
             /\ pc = "rscan"
             /\ \A r \in serviced : r < i
             /\ serviced' = serviced \cup {i}
       /\ last'.kind \in AcceptKinds => (i = 0 /\ serviced = {})
       /\ last'.kind \in ServiceKinds \ (AcceptKinds \cup {"rscan_err"}) =>
             i \in Clients]_vars

\* In one pass the listener has been serviced and then a client read.
C17_Witness ==
    /\ pc = "rscan"
    /\ 0 \in serviced
    /\ pfds[0].revents = "in"
    /\ last.kind \in {"recv_data", "recv_eof", "recv_eintr"}
    /\ last.slot \in serviced

----------------------------------------------------------------------------
\* C18: a client slot that changes during the timeout scan is the slot the
\* scan is at, and the timer armed for its occupant has run for a full
\* TIMEOUT since the occupant was accepted or last rearmed; accepting a
\* connection and rearming on a readiness event both restart that count, so
\* a flag or expiry left by an earlier occupant or another slot closes
\* nothing that has not itself timed out.
C18_NoPrematureEviction ==
    [][\A s \in Clients :
         /\ (pc = "tscan" /\ Occupied(s) /\ pfds'[s].fd # pfds[s].fd) =>
               /\ i = s
               /\ elapsed[s] >= TIMEOUT
         /\ Placed(s) => elapsed'[s] = 0
         /\ (last'.kind \in {"recv_data", "recv_eintr"} /\ last'.slot = s) =>
               elapsed'[s] = 0]_vars

\* A timeout scan set off by a stale flag has run to its end: no client has
\* timed out, none was closed, and the last slot it looked at holds a
\* connection whose timer is still running.
C18_Witness ==
    /\ pc = "tscan"
    /\ i = MAX_CONNECTIONS
    /\ last.kind = "tscan_keep"
    /\ Occupied(last.slot)
    /\ elapsed[last.slot] < TIMEOUT
    /\ timedout = {}
    /\ \A s \in Clients : ~TimedOut(s)

----------------------------------------------------------------------------
\* C19: occupied slots hold pairwise different descriptors, a free slot
\* holds -1, and the open descriptors are exactly those held by occupied
\* slots: none is held after it was closed (so none can be closed or read
\* again) and none is open without a slot.
C19_HandleDiscipline ==
    /\ \A s, r \in Slots :
          (Occupied(s) /\ Occupied(r) /\ pfds[s].fd = pfds[r].fd) => s = r
    /\ \A s \in Slots : ~Occupied(s) => pfds[s].fd = -1
    /\ open = {pfds[s].fd : s \in {r \in Slots : Occupied(r)}}

\* A connection has just been accepted into a slot whose earlier
\* connection was closed, with the descriptor number that close released,
\* while a second client holds another descriptor.
C19_Witness ==
    /\ last.kind = "accept_ok"
    /\ last.after # "none"
    /\ pfds[last.slot].fd \in open
    /\ \E r \in Clients :
          r > last.slot /\ Occupied(r) /\ pfds[r].fd > pfds[last.slot].fd

----------------------------------------------------------------------------
\* C20: the readiness scan services a slot only if poll() reported an event
\* for it, the slot is occupied, and it has not been serviced in this pass;
\* a scan that runs to its end with interrupt_triggered clear has serviced
\* every reported slot; and the slot a connection was accepted into during
\* the pass is not serviced, closed or rearmed by the rest of that scan.
C20_OncePerPass ==
    [][/\ last'.kind \in ServiceKinds =>
             /\ i \notin serviced
             /\ Occupied(i)
             /\ pfds[i].revents # "none"
             /\ fresh # 0 => i # fresh
       /\ (last'.kind = "rscan_done" /\ interrupt_triggered = 0) =>
             serviced = {r \in Slots : pfds[r].revents # "none"}
       /\ (pc = "rscan" /\ fresh # 0) =>
             /\ pfds'[fresh].fd = pfds[fresh].fd
             /\ timers'[fresh] <= timers[fresh]
             /\ fresh \notin serviced']_vars

\* The scan has just passed over the slot it accepted a connection into
\* earlier in the same pass, on its way to a reported client further up.
C20_Witness ==
    /\ pc = "rscan"
    /\ fresh # 0
    /\ last.kind = "rscan_skip"
    /\ last.slot = fresh
    /\ Occupied(fresh)
    /\ 0 \in serviced
    /\ active > 0

====
